---- MODULE Spec2Model ----
(***************************************************************************)
(* Model of HomePage (src/src/app/home/home.page.ts): the signaling        *)
(* handlers registered in ngOnInit, the peer-connection registry           *)
(* (peerConnectionMap), the remote stream registry                         *)
(* (targetUserStreamDataMap) and the suspended async handlers.             *)
(*                                                                         *)
(* One step of the model is one JavaScript task: a socket event handler or *)
(* a promise continuation runs from its start (or from the await it was    *)
(* suspended at) to its next await.                                        *)
(***************************************************************************)
EXTENDS Integers, Sequences, FiniteSets, Bags, TLC

\* ---------------------------------------------------------------- bounds
MaxEvents == 2        \* socket events delivered in one run
MaxRemoteTracks == 1  \* distinct remote tracks a peer delivers

\* ------------------------------------------------------------- constants
Undef == "undefined"              \* a missing senderId / userId (null or undefined)
Ids == {"A", "B"}                 \* identifiers of remote participants
Keys == Ids \cup {Undef}
SocketId == "me"                  \* this.ioConnection.id
JoinRoomId == 0
CreateRoomId == 1
NoDesc == "null"                  \* localDescription / remoteDescription not set
LocalTrackSeq == <<"audio", "video">>   \* getUserMedia({audio: true, video: true}).getTracks()
LocalTracks == {LocalTrackSeq[i] : i \in 1..Len(LocalTrackSeq)}
RemoteTracks == 1..MaxRemoteTracks
ListArg == "list"                 \* marks an on-join whose payload is a list

\* on-join payloads: undefined is modelled apart (OnJoin's isNull)
UserIdLists == {<<>>, <<"A">>, <<"B">>, <<"A", "B">>}

\* ------------------------------------------------- JavaScript Map (ordered)
MapHas(m, k) == \E i \in 1..Len(m) : m[i].k = k
MapGet(m, k) == m[CHOOSE i \in 1..Len(m) : m[i].k = k].v
MapSet(m, k, v) ==
  IF MapHas(m, k)
    THEN [i \in 1..Len(m) |-> IF m[i].k = k THEN [k |-> k, v |-> v] ELSE m[i]]
    ELSE Append(m, [k |-> k, v |-> v])
MapDeleteTest(e, k) == e.k # k
MapDelete(m, k) == SelectSeq(m, LAMBDA e : MapDeleteTest(e, k))
MapKeySeq(m) == [i \in 1..Len(m) |-> m[i].k]
MapKeys(m) == {m[i].k : i \in 1..Len(m)}
MapValues(m) == {m[i].v : i \in 1..Len(m)}

VARIABLES
  initPc,                  \* position of ngOnInit
  ioConnection,            \* "null" | "open" | "closed"
  localStream,             \* localVideo.nativeElement.srcObject is a MediaStream
  sessions,                \* every RTCPeerConnection constructed, in creation order
  peerConnectionMap,       \* Map<string, RTCPeerConnection>: key -> index in sessions
  targetUserStreamDataMap, \* Map<string, MediaStream>: key -> set of tracks
  tasks,                   \* bag of async handlers suspended at an await
  destroyed,               \* ngOnDestroy has run
  nEvents,                 \* events delivered so far
  addTrackCalls,           \* the connections the last step called addTrack on
  last,                    \* the handler or continuation that ran in the last step
  emitted                  \* the messages that step passed to ioConnection.emit

vars == <<initPc, ioConnection, localStream, sessions, peerConnectionMap,
          targetUserStreamDataMap, tasks, destroyed, nEvents, addTrackCalls, last, emitted>>

\* ------------------------------------------------------------ RTCPeerConnection
NewSession(remoteId) ==
  [remoteId |-> remoteId, closed |-> FALSE, senders |-> {},
   localDesc |-> NoDesc, remoteDesc |-> NoDesc]

CloseSession(s) == [s EXCEPT !.closed = TRUE]

\* RTCPeerConnection.addTrack: throws InvalidStateError on a closed connection and
\* InvalidAccessError when a sender for the track already exists.
addTrack(s, t) ==
  IF s.closed \/ t \in s.senders
    THEN [ok |-> FALSE, s |-> s]
    ELSE [ok |-> TRUE, s |-> [s EXCEPT !.senders = @ \cup {t}]]

RECURSIVE addTracksFrom(_, _)
addTracksFrom(s, i) ==
  IF i > Len(LocalTrackSeq) THEN [ok |-> TRUE, s |-> s]
  ELSE LET r == addTrack(s, LocalTrackSeq[i])
       IN IF r.ok THEN addTracksFrom(r.s, i + 1) ELSE r

\* mutant: the local tracks are not attached
attachLocalTracks_skipped(s, hasStream) == [ok |-> TRUE, s |-> s]

\* if (srcObject != null && srcObject instanceof MediaStream) getTracks().forEach(addTrack)
attachLocalTracks(s, hasStream) ==
  IF hasStream THEN addTracksFrom(s, 1) ELSE [ok |-> TRUE, s |-> s]

Described(s) == s.localDesc # NoDesc \/ s.remoteDesc # NoDesc

\* ------------------------------------------------------------------ registry
getOrCreatePeerConnection(pcm, ss, remoteId) ==
  IF remoteId # Undef /\ MapHas(pcm, remoteId)
    THEN [pcm |-> pcm, ss |-> ss, pc |-> MapGet(pcm, remoteId)]
    ELSE [pcm |-> MapSet(pcm, remoteId, Len(ss) + 1),
          ss |-> Append(ss, NewSession(remoteId)),
          pc |-> Len(ss) + 1]

removePeerConnection(pcm, ss, remoteId) ==
  IF remoteId = Undef THEN [pcm |-> pcm, ss |-> ss]
  ELSE [pcm |-> MapDelete(pcm, remoteId),
        ss |-> IF MapHas(pcm, remoteId)
                 THEN [ss EXCEPT ![MapGet(pcm, remoteId)] = CloseSession(@)]
                 ELSE ss]

\* mutant: the stream is stopped but stays in the map
removeStream_kept(streams, remoteId) == streams

removeStream(streams, remoteId) ==
  IF remoteId = Undef THEN streams
  ELSE [k \in DOMAIN streams \ {remoteId} |-> streams[k]]

\* closes every connection of a copy of the values; the map itself is not touched
removeAllPeerConnection(pcm, ss) ==
  [pcm |-> pcm,
   ss |-> [i \in 1..Len(ss) |-> IF i \in MapValues(pcm) THEN CloseSession(ss[i]) ELSE ss[i]]]

Msg(type, arg, sdp) == [type |-> type, receiverId |-> arg, senderId |-> SocketId, sdp |-> sdp]
RoomMsg(type, room) == [type |-> type, room |-> room]
RemoveMsg(id) == [type |-> "remove-connection", id |-> id]

removeAllCurrentConnection(io, pcm) ==
  IF io = "null" THEN <<>>
  ELSE [i \in 1..Len(pcm) |-> RemoveMsg(pcm[i].k)]

\* ------------------------------------------------------------ async handlers
Task(h, pc, sess, to) == [h |-> h, pc |-> pc, sess |-> sess, to |-> to]

\* await of an operation just called on connection s: on a closed connection
\* the operation rejects with InvalidStateError and the handler ends there,
\* otherwise the handler is suspended as task t
suspend(ts, s, t) == IF s.closed THEN ts ELSE ts (+) SetToBag({t})

\* mutant: the description is read before the awaited setLocalDescription resolved
localDescriptionOf_early(ss, o) == sessions[o].localDesc

\* peerConnection.localDescription, read when a message is emitted
localDescriptionOf(ss, o) == ss[o].localDesc

\* sendOffers: the synchronous part of every forEach callback, up to its first await
RECURSIVE sendOffersFrom(_, _, _, _)
sendOffersFrom(st, userIds, i, hasStream) ==
  IF i > Len(userIds) THEN st
  ELSE LET g == getOrCreatePeerConnection(st.pcm, st.ss, userIds[i])
           a == attachLocalTracks(g.ss[g.pc], hasStream)
           ss2 == [g.ss EXCEPT ![g.pc] = a.s]
           ts2 == IF a.ok
                    THEN suspend(st.tasks, a.s, Task("sendOffers", "createOffer", g.pc, userIds[i]))
                    ELSE st.tasks
           c2 == IF hasStream THEN st.called \cup {g.pc} ELSE st.called
       IN sendOffersFrom([pcm |-> g.pcm, ss |-> ss2, tasks |-> ts2, called |-> c2],
                         userIds, i + 1, hasStream)

sendOffers(io, pcm, ss, ts, userIds, hasStream) ==
  IF io = "null" THEN [pcm |-> pcm, ss |-> ss, tasks |-> ts, called |-> {}]
  ELSE sendOffersFrom([pcm |-> pcm, ss |-> ss, tasks |-> ts, called |-> {}], userIds, 1, hasStream)

\* delivery of one more event, within the bound of the model
Deliver == nEvents < MaxEvents /\ nEvents' = nEvents + 1

Last(ev, id, ids) == [ev |-> ev, id |-> id, ids |-> ids, h |-> ""]
\* a continuation of task t: the handler it belongs to and the identifier it serves
LastOf(ev, t) == [ev |-> ev, id |-> t.to, ids |-> <<>>, h |-> t.h]

\* ------------------------------------------------------------------- Init
Init ==
  /\ initPc = "start"
  /\ ioConnection = "null"
  /\ localStream = FALSE
  /\ sessions = <<>>
  /\ peerConnectionMap = <<>>
  /\ targetUserStreamDataMap = <<>>
  /\ tasks = EmptyBag
  /\ destroyed = FALSE
  /\ nEvents = 0
  /\ addTrackCalls = {}
  /\ last = Last("constructor", Undef, <<>>)
  /\ emitted = <<>>

\* ---------------------------------------------------------------- ngOnInit
\* checkRTCAvailability resolved: the socket is created, every handler is
\* registered and getUserStreamData is suspended at getUserMedia
CheckAvailable ==
  /\ initPc = "start"
  /\ initPc' = "media"
  /\ ioConnection' = "open"
  /\ addTrackCalls' = {}
  /\ last' = Last("checkRTCAvailability", Undef, <<>>)
  /\ emitted' = <<>>
  /\ UNCHANGED <<localStream, sessions, peerConnectionMap, targetUserStreamDataMap,
                 tasks, destroyed, nEvents>>

\* checkRTCAvailability threw: caught and logged, nothing else runs
CheckUnavailable ==
  /\ initPc = "start"
  /\ initPc' = "failed"
  /\ addTrackCalls' = {}
  /\ last' = Last("checkRTCAvailability-failed", Undef, <<>>)
  /\ emitted' = <<>>
  /\ UNCHANGED <<ioConnection, localStream, sessions, peerConnectionMap,
                 targetUserStreamDataMap, tasks, destroyed, nEvents>>

\* getUserMedia resolved: the rest of getUserStreamData, then join-room
getUserStreamData ==
  /\ initPc = "media"
  /\ LET keys == MapKeySeq(peerConnectionMap)
         renegotiate == Len(peerConnectionMap) > 0
         st == IF renegotiate
                 THEN sendOffers(ioConnection, peerConnectionMap, sessions, tasks, keys, TRUE)
                 ELSE [pcm |-> peerConnectionMap, ss |-> sessions, tasks |-> tasks, called |-> {}]
     IN /\ peerConnectionMap' = st.pcm
        /\ sessions' = st.ss
        /\ tasks' = st.tasks
        /\ addTrackCalls' = st.called
        /\ emitted' = (IF renegotiate
                         THEN removeAllCurrentConnection(ioConnection, peerConnectionMap)
                         ELSE <<>>) \o <<RoomMsg("join-room", JoinRoomId)>>
  /\ localStream' = TRUE
  /\ initPc' = "joined"
  /\ last' = Last("getUserStreamData", Undef, <<>>)
  /\ UNCHANGED <<ioConnection, targetUserStreamDataMap, destroyed, nEvents>>

\* mutant: join-room is emitted although getUserMedia rejected
MediaUnavailable_stillJoins ==
  /\ initPc = "media"
  /\ initPc' = "failed"
  /\ addTrackCalls' = {}
  /\ last' = Last("getUserStreamData-failed", Undef, <<>>)
  /\ emitted' = <<RoomMsg("join-room", JoinRoomId)>>
  /\ UNCHANGED <<ioConnection, localStream, sessions, peerConnectionMap,
                 targetUserStreamDataMap, tasks, destroyed, nEvents>>

\* getUserMedia rejected: caught and logged, join-room is not emitted
MediaUnavailable ==
  /\ initPc = "media"
  /\ initPc' = "failed"
  /\ addTrackCalls' = {}
  /\ last' = Last("getUserStreamData-failed", Undef, <<>>)
  /\ emitted' = <<>>
  /\ UNCHANGED <<ioConnection, localStream, sessions, peerConnectionMap,
                 targetUserStreamDataMap, tasks, destroyed, nEvents>>

\* ---------------------------------------------------------- socket handlers
\* the handlers run while the socket that registered them is open
Listening == ioConnection = "open"

OnCreate ==
  /\ Listening
  /\ Deliver
  /\ addTrackCalls' = {}
  /\ last' = Last("on-create", Undef, <<>>)
  /\ emitted' = <<>>
  /\ UNCHANGED <<initPc, ioConnection, localStream, sessions, peerConnectionMap,
                 targetUserStreamDataMap, tasks, destroyed>>

\* mutant: the userIds == null branch is lost
onJoin_noNullBranch(io, pcm, ss, ts, isNull, userIds, hasStream) ==
  LET st == sendOffers(io, pcm, ss, ts, userIds, hasStream)
  IN [pcm |-> st.pcm, ss |-> st.ss, tasks |-> st.tasks, called |-> st.called, out |-> <<>>]

\* on('on-join'): isNull is userIds == null
onJoin(io, pcm, ss, ts, isNull, userIds, hasStream) ==
  IF isNull
    THEN [pcm |-> pcm, ss |-> ss, tasks |-> ts, called |-> {},
          out |-> <<RoomMsg("create-room", CreateRoomId)>>]
    ELSE LET st == sendOffers(io, pcm, ss, ts, userIds, hasStream)
         IN [pcm |-> st.pcm, ss |-> st.ss, tasks |-> st.tasks, called |-> st.called, out |-> <<>>]

\* on-join is the relay's reply to join-room
OnJoin(isNull, userIds) ==
  /\ Listening
  /\ Deliver
  /\ initPc = "joined"
  /\ LET r == onJoin(ioConnection, peerConnectionMap, sessions, tasks, isNull, userIds, localStream)
     IN /\ peerConnectionMap' = r.pcm
        /\ sessions' = r.ss
        /\ tasks' = r.tasks
        /\ addTrackCalls' = r.called
        /\ emitted' = r.out
  /\ last' = Last("on-join", IF isNull THEN Undef ELSE ListArg, userIds)
  /\ UNCHANGED <<initPc, ioConnection, localStream, targetUserStreamDataMap, destroyed>>

\* on('on-received-offer') up to await setRemoteDescription
onReceivedOffer(pcm, ss, ts, senderId, hasStream) ==
  LET g == getOrCreatePeerConnection(pcm, ss, senderId)
      a == attachLocalTracks(g.ss[g.pc], hasStream)
  IN [pcm |-> g.pcm,
      ss |-> [g.ss EXCEPT ![g.pc] = a.s],
      tasks |-> IF a.ok
                  THEN suspend(ts, a.s, Task("on-received-offer", "setRemoteDescription", g.pc, senderId))
                  ELSE ts,
      called |-> IF hasStream THEN {g.pc} ELSE {}]

OnReceivedOffer(senderId) ==
  /\ Listening
  /\ Deliver
  /\ LET r == onReceivedOffer(peerConnectionMap, sessions, tasks, senderId, localStream)
     IN /\ peerConnectionMap' = r.pcm
        /\ sessions' = r.ss
        /\ tasks' = r.tasks
        /\ addTrackCalls' = r.called
  /\ last' = Last("on-received-offer", senderId, <<>>)
  /\ emitted' = <<>>
  /\ UNCHANGED <<initPc, ioConnection, localStream, targetUserStreamDataMap, destroyed>>

\* on('on-received-answer') up to await setRemoteDescription
onReceivedAnswer(pcm, ss, ts, senderId) ==
  LET g == getOrCreatePeerConnection(pcm, ss, senderId)
  IN [pcm |-> g.pcm, ss |-> g.ss,
      tasks |-> suspend(ts, g.ss[g.pc],
                        Task("on-received-answer", "setRemoteDescription", g.pc, senderId))]

OnReceivedAnswer(senderId) ==
  /\ Listening
  /\ Deliver
  /\ LET r == onReceivedAnswer(peerConnectionMap, sessions, tasks, senderId)
     IN /\ peerConnectionMap' = r.pcm
        /\ sessions' = r.ss
        /\ tasks' = r.tasks
  /\ addTrackCalls' = {}
  /\ last' = Last("on-received-answer", senderId, <<>>)
  /\ emitted' = <<>>
  /\ UNCHANGED <<initPc, ioConnection, localStream, targetUserStreamDataMap, destroyed>>

\* on('on-received-candidate') up to await addIceCandidate
onReceivedCandidate(pcm, ss, ts, senderId) ==
  LET g == getOrCreatePeerConnection(pcm, ss, senderId)
  IN [pcm |-> g.pcm, ss |-> g.ss,
      tasks |-> suspend(ts, g.ss[g.pc],
                        Task("on-received-candidate", "addIceCandidate", g.pc, senderId))]

OnReceivedCandidate(senderId) ==
  /\ Listening
  /\ Deliver
  /\ LET r == onReceivedCandidate(peerConnectionMap, sessions, tasks, senderId)
     IN /\ peerConnectionMap' = r.pcm
        /\ sessions' = r.ss
        /\ tasks' = r.tasks
  /\ addTrackCalls' = {}
  /\ last' = Last("on-received-candidate", senderId, <<>>)
  /\ emitted' = <<>>
  /\ UNCHANGED <<initPc, ioConnection, localStream, targetUserStreamDataMap, destroyed>>

\* on('on-user-disconnect'): removePeerConnection(userId); removeStream(userId)
onUserDisconnect(pcm, ss, streams, userId) ==
  LET r == removePeerConnection(pcm, ss, userId)
  IN [pcm |-> r.pcm, ss |-> r.ss, streams |-> removeStream(streams, userId)]

OnUserDisconnect(userId) ==
  /\ Listening
  /\ Deliver
  /\ LET r == onUserDisconnect(peerConnectionMap, sessions, targetUserStreamDataMap, userId)
     IN /\ peerConnectionMap' = r.pcm
        /\ sessions' = r.ss
        /\ targetUserStreamDataMap' = r.streams
  /\ addTrackCalls' = {}
  /\ last' = Last("on-user-disconnect", userId, <<>>)
  /\ emitted' = <<>>
  /\ UNCHANGED <<initPc, ioConnection, localStream, tasks, destroyed>>

\* on('disconnect'): removeAllPeerConnection()
OnDisconnect ==
  /\ Listening
  /\ Deliver
  /\ LET r == removeAllPeerConnection(peerConnectionMap, sessions)
     IN /\ peerConnectionMap' = r.pcm
        /\ sessions' = r.ss
  /\ addTrackCalls' = {}
  /\ last' = Last("disconnect", Undef, <<>>)
  /\ emitted' = <<>>
  /\ UNCHANGED <<initPc, ioConnection, localStream, targetUserStreamDataMap, tasks, destroyed>>

\* ------------------------------------------------------------- ngOnDestroy
\* closes the connections of the map, clears both maps, closes the socket;
\* modelled from the point where the socket exists
ngOnDestroy ==
  /\ ~destroyed
  /\ ioConnection # "null"
  /\ destroyed' = TRUE
  /\ sessions' = [i \in 1..Len(sessions) |->
                    IF i \in MapValues(peerConnectionMap) THEN CloseSession(sessions[i])
                    ELSE sessions[i]]
  /\ peerConnectionMap' = <<>>
  /\ targetUserStreamDataMap' = <<>>
  /\ ioConnection' = "closed"
  /\ addTrackCalls' = {}
  /\ last' = Last("ngOnDestroy", Undef, <<>>)
  /\ emitted' = <<>>
  /\ UNCHANGED <<initPc, localStream, tasks, nEvents>>

\* --------------------------------------------------- promise continuations
\* The awaited operation of task t resolved on an open connection: the handler
\* runs on to its next await or to its end.  ss is sessions, ts is tasks.
settle(ss, ts, t) ==
  LET rest == ts (-) SetToBag({t})
      next(pc) == rest (+) SetToBag({[t EXCEPT !.pc = pc]})
  IN CASE t.h = "sendOffers" /\ t.pc = "createOffer" ->
            [ss |-> ss, tasks |-> next("setLocalDescription"), out |-> <<>>]
       [] t.h = "sendOffers" /\ t.pc = "setLocalDescription" ->
            LET ss2 == [ss EXCEPT ![t.sess].localDesc = "offer"]
            IN [ss |-> ss2, tasks |-> rest,
                out |-> <<Msg("transfer-offer", t.to, localDescriptionOf(ss2, t.sess))>>]
       [] t.h = "on-received-offer" /\ t.pc = "setRemoteDescription" ->
            [ss |-> [ss EXCEPT ![t.sess].remoteDesc = "offer"],
             tasks |-> next("createAnswer"), out |-> <<>>]
       [] t.h = "on-received-offer" /\ t.pc = "createAnswer" ->
            [ss |-> ss, tasks |-> next("setLocalDescription"), out |-> <<>>]
       [] t.h = "on-received-offer" /\ t.pc = "setLocalDescription" ->
            LET ss2 == [ss EXCEPT ![t.sess].localDesc = "answer"]
            IN [ss |-> ss2, tasks |-> rest,
                out |-> <<Msg("transfer-answer", t.to, localDescriptionOf(ss2, t.sess))>>]
       [] t.h = "on-received-answer" /\ t.pc = "setRemoteDescription" ->
            [ss |-> [ss EXCEPT ![t.sess].remoteDesc = "answer"], tasks |-> rest, out |-> <<>>]
       [] t.h = "on-received-candidate" /\ t.pc = "addIceCandidate" ->
            [ss |-> ss, tasks |-> rest, out |-> <<>>]

\* mutant: an operation pending on a connection that is closed meanwhile
\* resolves all the same and the handler runs on
Settle_afterClose(t) ==
  /\ BagIn(t, tasks)
  /\ LET r == settle(sessions, tasks, t)
     IN /\ sessions' = r.ss
        /\ tasks' = r.tasks
        /\ emitted' = r.out
  /\ addTrackCalls' = {}
  /\ last' = LastOf("settle", t)
  /\ UNCHANGED <<initPc, ioConnection, localStream, peerConnectionMap,
                 targetUserStreamDataMap, destroyed, nEvents>>

\* An operation pending on a connection that is closed meanwhile never settles:
\* the connection aborts its steps without resolving or rejecting the promise.
Settle(t) ==
  /\ BagIn(t, tasks)
  /\ ~sessions[t.sess].closed
  /\ LET r == settle(sessions, tasks, t)
     IN /\ sessions' = r.ss
        /\ tasks' = r.tasks
        /\ emitted' = r.out
  /\ addTrackCalls' = {}
  /\ last' = LastOf("settle", t)
  /\ UNCHANGED <<initPc, ioConnection, localStream, peerConnectionMap,
                 targetUserStreamDataMap, destroyed, nEvents>>

\* The awaited operation rejected (a failure of the capability): the handler's
\* promise rejects, nothing catches it.
Fail(t) ==
  /\ BagIn(t, tasks)
  /\ ~sessions[t.sess].closed
  /\ tasks' = tasks (-) SetToBag({t})
  /\ addTrackCalls' = {}
  /\ last' = LastOf("reject", t)
  /\ emitted' = <<>>
  /\ UNCHANGED <<initPc, ioConnection, localStream, sessions, peerConnectionMap,
                 targetUserStreamDataMap, destroyed, nEvents>>

\* -------------------------------------------------- RTCPeerConnection events
\* ontrack of connection o: fired while a setRemoteDescription on it is being
\* processed; the closure's remoteId is the one the connection was created with
ontrack(streams, remoteId, track) ==
  [k \in DOMAIN streams \cup {remoteId} |->
     IF k = remoteId
       THEN (IF remoteId \in DOMAIN streams THEN streams[remoteId] ELSE {}) \cup {track}
       ELSE streams[k]]

OnTrack(o, track) ==
  /\ o \in DOMAIN sessions
  /\ ~sessions[o].closed
  /\ \E t \in BagToSet(tasks) : t.sess = o /\ t.pc = "setRemoteDescription"
  /\ targetUserStreamDataMap' = ontrack(targetUserStreamDataMap, sessions[o].remoteId, track)
  /\ addTrackCalls' = {}
  /\ last' = Last("ontrack", sessions[o].remoteId, <<>>)
  /\ emitted' = <<>>
  /\ UNCHANGED <<initPc, ioConnection, localStream, sessions, peerConnectionMap,
                 tasks, destroyed, nEvents>>

\* mutant: the event?.candidate != null test is lost
onicecandidate_unchecked(remoteId, hasCandidate) ==
  <<Msg("transfer-candidate", remoteId, NoDesc)>>

\* onicecandidate of connection o; hasCandidate is event?.candidate != null
onicecandidate(remoteId, hasCandidate) ==
  IF hasCandidate THEN <<Msg("transfer-candidate", remoteId, NoDesc)>> ELSE <<>>

\* candidates are gathered once a local description is set
OnIceCandidate(o, hasCandidate) ==
  /\ o \in DOMAIN sessions
  /\ ~sessions[o].closed
  /\ sessions[o].localDesc # NoDesc
  /\ emitted' = onicecandidate(sessions[o].remoteId, hasCandidate)
  /\ addTrackCalls' = {}
  /\ last' = Last(IF hasCandidate THEN "onicecandidate" ELSE "onicecandidate-null",
                  sessions[o].remoteId, <<>>)
  /\ UNCHANGED <<initPc, ioConnection, localStream, sessions, peerConnectionMap,
                 targetUserStreamDataMap, tasks, destroyed, nEvents>>

\* ------------------------------------------------------------ specification
TaskSet == BagToSet(tasks)

Next ==
  \/ CheckAvailable
  \/ CheckUnavailable
  \/ getUserStreamData
  \/ MediaUnavailable
  \/ OnCreate
  \/ \E userIds \in UserIdLists : OnJoin(FALSE, userIds)
  \/ OnJoin(TRUE, <<>>)
  \/ \E id \in Keys : OnReceivedOffer(id)
  \/ \E id \in Keys : OnReceivedAnswer(id)
  \/ \E id \in Keys : OnReceivedCandidate(id)
  \/ \E id \in Keys : OnUserDisconnect(id)
  \/ OnDisconnect
  \/ ngOnDestroy
  \/ \E t \in TaskSet : Settle(t)
  \/ \E t \in TaskSet : Fail(t)
  \/ \E o \in DOMAIN sessions, track \in RemoteTracks : OnTrack(o, track)
  \/ \E o \in DOMAIN sessions, c \in BOOLEAN : OnIceCandidate(o, c)

Spec == Init /\ [][Next]_vars

\* every operation pending on an open connection eventually resolves or rejects
TaskKinds ==
  {<<"sendOffers", "createOffer">>, <<"sendOffers", "setLocalDescription">>,
   <<"on-received-offer", "setRemoteDescription">>, <<"on-received-offer", "createAnswer">>,
   <<"on-received-offer", "setLocalDescription">>,
   <<"on-received-answer", "setRemoteDescription">>,
   <<"on-received-candidate", "addIceCandidate">>}

Progress(kind, to) ==
  \E t \in TaskSet : t.h = kind[1] /\ t.pc = kind[2] /\ t.to = to /\ (Settle(t) \/ Fail(t))

FairSpec == Spec /\ \A kind \in TaskKinds, to \in Keys : WF_vars(Progress(kind, to))

\* the runs in which on-join is the only inbound message
NextJoin ==
  \/ CheckAvailable
  \/ CheckUnavailable
  \/ getUserStreamData
  \/ MediaUnavailable
  \/ \E userIds \in UserIdLists : OnJoin(FALSE, userIds)
  \/ OnJoin(TRUE, <<>>)
  \/ \E t \in TaskSet : Settle(t)
  \/ \E t \in TaskSet : Fail(t)
  \/ \E o \in DOMAIN sessions, c \in BOOLEAN : OnIceCandidate(o, c)

SpecJoin == Init /\ [][NextJoin]_vars

\* ================================================================== claims
Live(o) == ~sessions[o].closed
StreamKeys == DOMAIN targetUserStreamDataMap
SessionKeys == MapKeys(peerConnectionMap)
JustHandled(ev) == last.ev = ev

\* C1: right after the channel-level disconnect event is handled, the peer
\* session registry and the remote stream registry are both empty.
C1_TeardownComplete ==
  JustHandled("disconnect") => (Len(peerConnectionMap) = 0 /\ StreamKeys = {})

\* C2: in every reachable state the keys of the remote stream registry are
\* keys of the peer session registry.
C2_KeysetConsistent == StreamKeys \subseteq SessionKeys

\* C3: no step calls addTrack on a connection whose local or remote
\* description was already set.
C3_NoAttachAfterDescribe ==
  [][\A o \in addTrackCalls' : o \in DOMAIN sessions => ~Described(sessions[o])]_vars

\* C4: when on-join is the only inbound message, the registry holds every
\* identifier an on-join listed (it held it right after the event and no key
\* leaves the registry), and every connection with a description set has all
\* local tracks attached; as attaching and describing are different steps,
\* the tracks were attached before the first description was set.
C4_Covered ==
  JustHandled("on-join") => \A i \in DOMAIN last.ids : MapHas(peerConnectionMap, last.ids[i])
C4_Attached ==
  \A o \in DOMAIN sessions : Described(sessions[o]) => LocalTracks \subseteq sessions[o].senders
C6_EmptyRoomCreates ==
  [][(last'.ev = "on-join" /\ last'.id = Undef) =>
       /\ emitted' = <<[type |-> "create-room", room |-> 1]>>
       /\ UNCHANGED <<peerConnectionMap, targetUserStreamDataMap, sessions, tasks>>]_vars

\* C6 witness: on-join without a list was handled while a session existed
C6_Witness ==
  /\ JustHandled("on-join") /\ last.id = Undef
  /\ Len(peerConnectionMap) > 0
  /\ Len(emitted) = 1

Emitted(type, to) ==
  \E i \in DOMAIN emitted :
    /\ emitted[i].type = type
    /\ emitted[i].receiverId = to
    /\ emitted[i].senderId = SocketId

\* an operation awaited by handler h for identifier X rejected, or is pending
\* on a connection that was closed meanwhile
Incomplete(h, X) ==
  \/ JustHandled("reject") /\ last.h = h /\ last.id = X
  \/ \E t \in TaskSet : t.h = h /\ t.to = X /\ sessions[t.sess].closed

Listed(X) == \E i \in DOMAIN last.ids : last.ids[i] = X

\* C5: after an on-join listing X a transfer-offer to X from the local
\* identifier is eventually emitted, unless createOffer or setLocalDescription
\* does not complete; and a transfer-offer carries the offer that was set as
\* the local description.
C5_OnlyAfterLocalSet ==
  \A i \in DOMAIN emitted' :
    emitted'[i].type = "transfer-offer" => emitted'[i].sdp = "offer"
C5_OfferToEveryListed ==
  /\ \A X \in Ids :
       (JustHandled("on-join") /\ Listed(X))
          ~> (Emitted("transfer-offer", X) \/ Incomplete("sendOffers", X))
  /\ [][C5_OnlyAfterLocalSet]_vars

\* C7: after an on-received-offer from C the registry holds a session for C,
\* the answer is constructed only once the remote description is set, and a
\* transfer-answer to C is eventually emitted with the local description set.
C7_SessionExists ==
  JustHandled("on-received-offer") => MapHas(peerConnectionMap, last.id)
C7_RemoteBeforeAnswer ==
  \A t \in TaskSet :
    (t.h = "on-received-offer" /\ t.pc \in {"createAnswer", "setLocalDescription"})
      => sessions[t.sess].remoteDesc # NoDesc
C7_AnswerAfterLocalSet ==
  \A i \in DOMAIN emitted : emitted[i].type = "transfer-answer" => emitted[i].sdp # NoDesc
C7_OfferAnswered ==
  /\ [](C7_SessionExists /\ C7_RemoteBeforeAnswer /\ C7_AnswerAfterLocalSet)
  /\ \A C \in Ids :
       (JustHandled("on-received-offer") /\ last.id = C)
          ~> (Emitted("transfer-answer", C) \/ Incomplete("on-received-offer", C))

\* C8: on-user-disconnect(B) leaves neither registry with B, leaves the
\* entries of every other key as they were, changes nothing when B has no
\* entry or is missing, emits nothing, and handling it again changes nothing.
SameEntry(k) ==
  /\ MapHas(peerConnectionMap', k) <=> MapHas(peerConnectionMap, k)
  /\ MapHas(peerConnectionMap, k) =>
       /\ MapGet(peerConnectionMap', k) = MapGet(peerConnectionMap, k)
       /\ sessions'[MapGet(peerConnectionMap, k)] = sessions[MapGet(peerConnectionMap, k)]
  /\ k \in DOMAIN targetUserStreamDataMap' <=> k \in StreamKeys
  /\ k \in StreamKeys => targetUserStreamDataMap'[k] = targetUserStreamDataMap[k]
C8_Step ==
  \A B \in Keys :
    (last'.ev = "on-user-disconnect" /\ last'.id = B) =>
      /\ B # Undef => (~MapHas(peerConnectionMap', B) /\ B \notin DOMAIN targetUserStreamDataMap')
      /\ \A k \in Keys \ {B} : SameEntry(k)
      /\ (B = Undef \/ (~MapHas(peerConnectionMap, B) /\ B \notin StreamKeys))
           => UNCHANGED <<peerConnectionMap, targetUserStreamDataMap, sessions>>
      /\ emitted' = <<>>
      /\ UNCHANGED tasks
C8_Idempotent ==
  \A B \in Keys :
    LET once == onUserDisconnect(peerConnectionMap, sessions, targetUserStreamDataMap, B)
    IN onUserDisconnect(once.pcm, once.ss, once.streams, B) = once
C8_UserDisconnectRemoves == []C8_Idempotent /\ [][C8_Step]_vars

\* C8 witness: on-user-disconnect(B) was handled, B's connection is closed and
\* out of both registries, another identifier's session is still registered
C8_Witness ==
  /\ JustHandled("on-user-disconnect") /\ last.id = "B"
  /\ \E o \in DOMAIN sessions : sessions[o].remoteId = "B" /\ sessions[o].closed
  /\ MapHas(peerConnectionMap, "A")

\* C9: a handler that calls getOrCreatePeerConnection with an identifier,
\* missing or not, that an earlier call registered gets the registered
\* connection and creates none, and no two open connections were created for
\* the same identifier.
C9_SameObject ==
  \A id \in Keys :
    (/\ last'.ev \in {"on-received-offer", "on-received-answer", "on-received-candidate"}
     /\ last'.id = id
     /\ MapHas(peerConnectionMap, id)) =>
       /\ Len(sessions') = Len(sessions)
       /\ MapGet(peerConnectionMap', id) = MapGet(peerConnectionMap, id)
C9_OneLivePerId ==
  \A o1, o2 \in DOMAIN sessions :
    (Live(o1) /\ Live(o2) /\ sessions[o1].remoteId = sessions[o2].remoteId) => o1 = o2
C9_GetOrCreateIdempotent == []C9_OneLivePerId /\ [][C9_SameObject]_vars

\* C10: an inbound offer, answer or candidate without a sender identifier
\* changes neither registry nor any connection and emits nothing.
C10_MalformedDropped ==
  [][(last'.ev \in {"on-received-offer", "on-received-answer", "on-received-candidate"}
        /\ last'.id = Undef) =>
       /\ UNCHANGED <<peerConnectionMap, targetUserStreamDataMap, sessions, tasks>>
       /\ emitted' = <<>>]_vars

\* C11: once the capability check or the local media acquisition has failed,
\* join-room is never emitted and no connection is ever created, whatever
\* inbound message arrives.
JoinRoomIn(out) == \E i \in DOMAIN out : out[i].type = "join-room"
C11_FatalAtStartup ==
  [][initPc = "failed" =>
       /\ initPc' = "failed"
       /\ ~JoinRoomIn(emitted')
       /\ Len(sessions') = Len(sessions)
       /\ peerConnectionMap' = peerConnectionMap]_vars

\* C12: when getUserStreamData sets the local stream while the registry has
\* the keys K, remove-connection is emitted for exactly the identifiers of K,
\* the registry has the keys K afterwards, and a transfer-offer to every
\* identifier of K is eventually emitted unless createOffer or
\* setLocalDescription does not complete.
RemovedIn(out) == {out[i].id : i \in {j \in DOMAIN out : out[j].type = "remove-connection"}}
C12_RemoveForEveryKey ==
  last'.ev = "getUserStreamData" =>
    /\ RemovedIn(emitted') = SessionKeys
    /\ MapKeys(peerConnectionMap') = SessionKeys
C12_Renegotiates ==
  /\ [][C12_RemoveForEveryKey]_vars
  /\ \A X \in Keys :
       (JustHandled("getUserStreamData") /\ MapHas(peerConnectionMap, X))
          ~> (Emitted("transfer-offer", X) \/ Incomplete("sendOffers", X))

\* C13: when getUserStreamData sets the local stream while sessions exist,
\* every registered connection is closed and its key gets a new connection,
\* and every offer it starts is constructed on a connection created in that
\* step (no description set, no track attached earlier).
C13_Step ==
  last'.ev = "getUserStreamData" =>
    /\ \A k \in SessionKeys :
         /\ sessions'[MapGet(peerConnectionMap, k)].closed
         /\ MapGet(peerConnectionMap', k) \notin DOMAIN sessions
    /\ \A t \in BagToSet(tasks') :
         (t.h = "sendOffers" /\ ~BagIn(t, tasks)) => t.sess \notin DOMAIN sessions
C13_RenegotiationRecreates == [][C13_Step]_vars

\* C14: a handler suspended at an await on a connection that was closed
\* meanwhile (on-user-disconnect, disconnect, ngOnDestroy) never runs on: it
\* stays suspended, the closed connection is never operated on, every
\* transfer-offer and transfer-answer comes from a handler whose connection is
\* open, and a step that is not an event leaves the registry alone.
Resumed(t) == CopiesIn(t, tasks') < CopiesIn(t, tasks)
C14_Step ==
  /\ \A t \in TaskSet : sessions[t.sess].closed => ~Resumed(t)
  /\ \A o \in DOMAIN sessions : sessions[o].closed => sessions'[o] = sessions[o]
  /\ \A i \in DOMAIN emitted' :
       emitted'[i].type \in {"transfer-offer", "transfer-answer"} =>
         \E t \in TaskSet :
           /\ Resumed(t)
           /\ t.to = emitted'[i].receiverId
           /\ ~sessions[t.sess].closed /\ ~sessions'[t.sess].closed
  /\ last'.ev \in {"settle", "reject"} =>
       UNCHANGED <<peerConnectionMap, targetUserStreamDataMap>>
C15_RegisteredAreOpen ==
  /\ \A k \in SessionKeys : ~sessions[MapGet(peerConnectionMap, k)].closed
  /\ \A o \in addTrackCalls : ~sessions[o].closed

\* C16: a candidate event with a candidate, of the connection created for X,
\* emits in its own step exactly one transfer-candidate, to X from the local
\* identifier, whatever the state of the description exchange; an event
\* without a candidate emits nothing; nothing else emits a transfer-candidate.
CandidatesIn(out) == {i \in DOMAIN out : out[i].type = "transfer-candidate"}
C16_Step ==
  /\ last'.ev = "onicecandidate" =>
       /\ Len(emitted') = 1
       /\ emitted'[1].type = "transfer-candidate"
       /\ emitted'[1].senderId = SocketId
       /\ \E o \in DOMAIN sessions :
            /\ ~sessions[o].closed
            /\ sessions[o].remoteId = emitted'[1].receiverId
            /\ sessions[o].remoteId = last'.id
       /\ UNCHANGED <<sessions, peerConnectionMap, targetUserStreamDataMap, tasks>>
  /\ last'.ev = "onicecandidate-null" => emitted' = <<>>
  /\ CandidatesIn(emitted') # {} => last'.ev = "onicecandidate"
C16_CandidateEmitted == [][C16_Step]_vars

\* C16 witness: a candidate of the connection of A was sent while A's answer
\* has not arrived (local description set, remote description not)
C16_Witness ==
  /\ JustHandled("onicecandidate") /\ last.id = "A"
  /\ CandidatesIn(emitted) # {}
  /\ \E o \in DOMAIN sessions :
       /\ sessions[o].remoteId = "A" /\ ~sessions[o].closed
       /\ sessions[o].localDesc = "offer" /\ sessions[o].remoteDesc = NoDesc

\* C17: when an awaited negotiation step rejects for the session of X, that
\* step changes no session and neither registry, emits nothing, ends only the
\* handler that awaited it and leaves the channel and its handlers in place;
\* and after an on-join listing X and Y, if a step of sendOffers rejects for X
\* then a transfer-offer to Y is still emitted, unless a step for Y itself
\* does not complete.
Rejected(h, X) == JustHandled("reject") /\ last.h = h /\ last.id = X
C17_Step ==
  last'.ev = "reject" =>
    /\ sessions' = sessions
    /\ peerConnectionMap' = peerConnectionMap
    /\ targetUserStreamDataMap' = targetUserStreamDataMap
    /\ ioConnection' = ioConnection
    /\ emitted' = <<>>
    /\ \E t \in TaskSet :
         /\ t.to = last'.id /\ t.h = last'.h
         /\ tasks' = tasks (-) SetToBag({t})
C17_OthersStillOffered ==
  \A X \in Ids : \A Y \in Ids \ {X} :
    [](JustHandled("on-join") /\ Listed(X) /\ Listed(Y)
         => (<>Rejected("sendOffers", X)
               => <>(Emitted("transfer-offer", Y) \/ Incomplete("sendOffers", Y))))
C17_RejectIsLocal == [][C17_Step]_vars
C17_ErrorIsolation == C17_RejectIsLocal /\ C17_OthersStillOffered


\* C18: every transfer-answer emitted carries the answer that its offer
\* handler has just set as the local description of the session, which has a
\* remote description; every transfer-offer emitted carries the offer that
\* sendOffers has just set, also when another handler of the same session
\* installed an answer before; no emitted description is null.
Carries(m, h, type) ==
  /\ m.sdp = type
  /\ \E t \in TaskSet :
       /\ Resumed(t) /\ t.h = h /\ t.pc = "setLocalDescription"
       /\ t.to = m.receiverId
       /\ sessions'[t.sess].localDesc = m.sdp
       /\ h = "on-received-offer" => sessions'[t.sess].remoteDesc # NoDesc
C18_Step ==
  \A i \in DOMAIN emitted' :
    /\ emitted'[i].type = "transfer-answer" => Carries(emitted'[i], "on-received-offer", "answer")
    /\ emitted'[i].type = "transfer-offer" => Carries(emitted'[i], "sendOffers", "offer")
C18_DescriptionCarried == [][C18_Step]_vars

\* C18 witness: the answer to A was sent from the session on which sendOffers
\* for A is pending
C18_Witness ==
  /\ JustHandled("settle") /\ Emitted("transfer-answer", "A")
  /\ \E t \in TaskSet :
       /\ t.h = "sendOffers" /\ t.to = "A" /\ ~sessions[t.sess].closed
       /\ sessions[t.sess].localDesc = "answer"
\* C18 witness of the other order: the offer to A was sent from a session
\* that holds the offer of A as its remote description
C18_WitnessOffer ==
  /\ JustHandled("settle") /\ Emitted("transfer-offer", "A")
  /\ \E o \in DOMAIN sessions :
       /\ sessions[o].remoteId = "A" /\ sessions[o].localDesc = "offer"
       /\ sessions[o].remoteDesc = "offer"


\* C19: join-room is emitted only by the step that ends getUserStreamData
\* successfully, once, for room 0, with the socket created and its handlers
\* registered and the local stream set; ngOnInit never goes back to an earlier
\* stage, so there is no second join-room; and a transfer-offer is emitted
\* only when the local stream is already set.
InitOrder ==
  {<<"start", "media">>, <<"start", "failed">>, <<"media", "joined">>, <<"media", "failed">>}
C19_Step ==
  /\ JoinRoomIn(emitted') =>
       /\ initPc = "media" /\ initPc' = "joined"
       /\ ioConnection # "null"
       /\ localStream'
       /\ Cardinality({i \in DOMAIN emitted' : emitted'[i].type = "join-room"}) = 1
       /\ \A i \in DOMAIN emitted' :
            emitted'[i].type = "join-room" => emitted'[i].room = JoinRoomId
  /\ initPc' # initPc => <<initPc, initPc'>> \in InitOrder
  /\ initPc' = "media" => ioConnection' # "null"
  /\ \A i \in DOMAIN emitted' : emitted'[i].type = "transfer-offer" => localStream
C20_Step ==
  /\ last'.ev = "ngOnDestroy" =>
       \A k \in SessionKeys : sessions'[MapGet(peerConnectionMap, k)].closed
  /\ destroyed' =>
       /\ Len(peerConnectionMap') = 0
       /\ StreamKeys' = {}
       /\ ioConnection' = "closed"
       /\ emitted' = <<>>
C20_LeaveTeardown == [][C20_Step]_vars

====
